---- MODULE Spec2Model ----
(***************************************************************************)
(* Model of the trace writer (app/trace_writer.py): run_trace_writer reads *)
(* the cursor from offset.json, get_traces pages through the tracing       *)
(* backend service by service, write_traces sorts the traces, writes one   *)
(* batch file and merges the new cursor entry into offset.json.            *)
(*                                                                         *)
(* Timestamps are integers (microseconds in the program).  The backend is  *)
(* the environment: it holds a set of traces, gains traces over time and   *)
(* answers a query with at most TRACE_LIMIT of the traces in the window.   *)
(*                                                                         *)
(* Spec is the pipeline run by run.  SpecFault adds file errors and a kill *)
(* of the process at any step, SpecConc two invocations in progress at     *)
(* once, and SpecCron is the scheduler behind POST /start and POST /stop   *)
(* (app/main.py).                                                          *)
(***************************************************************************)
EXTENDS Integers, Sequences, FiniteSets, TLC

\* ---------------------------------------------------------------- bounds
MaxTime == 2        \* the clock runs over 0..MaxTime
MaxTraces == 3      \* traces the backend ever holds
MaxSpans == 2       \* spans per trace
MaxRuns == 2        \* invocations of run_trace_writer
MaxConcTraces == 2  \* traces the backend holds when invocations overlap
MaxRequests == 4    \* POST /start and POST /stop requests

\* ------------------------------------------------------ program constants
\* trace_writer.py:19 sets 2000; the model pages by 2 so that full pages,
\* short pages and empty pages all occur with MaxTraces traces.
TRACE_LIMIT == 2
\* trace_writer.py:20, SERVICES = os.getenv("SERVICES").split(","): the
\* configurations of the model, one service or two.
ServiceLists == {<<"A">>, <<"A", "B">>}
\* trace_writer.py:148, 15 minutes in microseconds
LOOKBACK == 15 * 60 * 1000000
\* Python's None for last_start_time (trace_writer.py:136); the keys of
\* the cursor are timestamps >= 0, so -1 is free to stand for None.
None == -1

Procs == {1, 2}     \* invocations that may be in progress
Handlers == {1, 2}  \* worker threads serving POST /start and POST /stop
TraceIDs == <<"t1", "t2", "t3", "t4", "t5">>

\* ------------------------------------------------------ pure helpers
SeqRange(s) == {s[i] : i \in 1..Len(s)}

SetMax(S) == CHOOSE x \in S : \A y \in S : y <= x

SetMin(S) == CHOOSE x \in S : \A y \in S : x <= y

\* min(span["startTime"] for span in trace["spans"])
MinSpan(trace) == SetMin(SeqRange(trace.spans))

\* max(span["startTime"] for span in trace["spans"])
MaxSpan(trace) == SetMax(SeqRange(trace.spans))

\* The effective start time of a trace, as the backend's range filter
\* reads it: the minimum span startTime.
EffStart(trace) == MinSpan(trace)

\* str(n) for n >= 0: the decimal digits, most significant first.
RECURSIVE Str(_)
Str(n) == IF n < 10 THEN <<n>> ELSE Append(Str(n \div 10), n % 10)

\* int(s) for a string of decimal digits.
RECURSIVE ToInt(_)
ToInt(s) ==
    IF Len(s) = 0 THEN 0
    ELSE 10 * ToInt(SubSeq(s, 1, Len(s) - 1)) + s[Len(s)]

\* The key write_traces sorts by: trace["spans"][0]["startTime"].
SortKey(trace) == trace.spans[1]

\* Insertion of x after every element whose key is <= key(x): the step of
\* a stable ascending sort.
RECURSIVE InsertSorted(_, _)
InsertSorted(x, s) ==
    IF s = <<>> THEN <<x>>
    ELSE IF SortKey(s[Len(s)]) <= SortKey(x) THEN Append(s, x)
    ELSE Append(InsertSorted(x, SubSeq(s, 1, Len(s) - 1)), s[Len(s)])

\* SortTraces without the sort: the traces stay in fetch order.
SortTraces_FetchOrder(s) == s

\* traces.sort(key=lambda trace: trace["spans"][0]["startTime"])
RECURSIVE SortTraces(_)
SortTraces(s) ==
    IF s = <<>> THEN <<>>
    ELSE InsertSorted(s[Len(s)], SortTraces(SubSeq(s, 1, Len(s) - 1)))

\* min(span["startTime"] for span in traces[0]["spans"])
FirstStartTime(sorted) == MinSpan(sorted[1])

\* LastStartTime reading the last span of the last trace in place of the
\* maximum over its spans.
LastStartTime_LastSpan(sorted) ==
    sorted[Len(sorted)].spans[Len(sorted[Len(sorted)].spans)]

\* max(span["startTime"] for span in traces[-1]["spans"])
LastStartTime(sorted) == MaxSpan(sorted[Len(sorted)])

\* traces[-1]["traceID"]
LastTraceId(sorted) == sorted[Len(sorted)].traceID

\* max(span["startTime"] for trace in traces for span in trace["spans"])
PageMaxStart(page) == SetMax(UNION {SeqRange(page[i].spans) : i \in 1..Len(page)})

\* ------------------------------------------------------ the offset file
EmptyDict == [k \in {} |-> "t1"]

NoFile == [exists |-> FALSE, valid |-> FALSE, data |-> EmptyDict]

JsonFile(d) == [exists |-> TRUE, valid |-> TRUE, data |-> d]

\* offset_data[str(last_start_time)] = last_trace_id
DictSet(d, k, v) == [x \in (DOMAIN d) \cup {k} |-> IF x = k THEN v ELSE d[x]]

\* max(map(int, offset_data.keys()))
MaxKey(d) == SetMax({ToInt(k) : k \in DOMAIN d})

\* run_trace_writer, lines 136-141: the last recorded start time read from
\* a parseable or absent offset file.
LastRecorded(file) ==
    IF file.exists /\ DOMAIN file.data # {} THEN MaxKey(file.data) ELSE None

\* run_trace_writer, lines 144-148: `if last_start_time:` is Python
\* truthiness, false for None and for 0.
StartTime(last, end) ==
    IF last # None /\ last # 0 THEN last + 1 ELSE end - LOOKBACK

VARIABLES
    SERVICES,           \* the configured services, fixed at start-up
    now,                \* the clock, time.time() in timestamp units
    backend,            \* the traces the backend holds
    lastEnd,            \* the latest end_time any run has queried with
    offsetFile,         \* offset.json
    batches,            \* batch files: name -> the contents written to it
    pc,                 \* position of each invocation
    end_time, start_time,
    svc,                \* index in SERVICES of the service being fetched
    current_start_time,
    all_traces,
    traces,             \* write_traces: the sorted list
    trace_file_path,    \* write_traces: <<first_start_time, last_start_time>>
    last_trace_id,
    offset_data,
    result,             \* how the invocation ended
    qlog,               \* the queries of the current run, in order
    runs,               \* invocations started
    firstStart,         \* start_time of the first run
    fetchedPrev,        \* traceIDs fetched by completed runs
    snap,               \* what the run found when it began
    lastBegin,          \* size of the backend when the latest run began
    anyFailed,          \* some query has failed
    running,            \* main.py: scheduler.running
    jobs,               \* jobs with id cron_run_trace_writer in the job store
    pending_jobs,       \* jobs added while the scheduler was stopped
    hpc,                \* position of each request handler
    hres,               \* how the last request of each handler ended
    requests            \* requests received

confVars == <<SERVICES>>
envVars == <<now, backend, lastEnd>>
fileVars == <<offsetFile, batches>>
fetchVars == <<end_time, start_time, svc, current_start_time, all_traces, qlog>>
writeVars == <<traces, trace_file_path, last_trace_id, offset_data>>
histVars == <<runs, firstStart, fetchedPrev, snap, lastBegin, anyFailed>>
cronVars == <<running, jobs, pending_jobs, hpc, hres, requests>>
writerVars == <<confVars, envVars, fileVars, pc, fetchVars, writeVars, result, histVars>>
vars == <<writerVars, cronVars>>

NoBatches == [f \in {} |-> <<>>]

NoRun ==
    [n |-> 0, nback |-> 0, prevnback |-> None, offset |-> NoFile,
     files |-> NoBatches, alone |-> TRUE]

\* An invocation is between its start and the return of write_traces.
Active(p) == pc[p] \notin {"idle", "done"}

\* What a run records when it begins; a run in progress is no longer alone.
SnapAtBegin(p) ==
    [q \in Procs |->
        IF q = p
        THEN [n |-> runs + 1, nback |-> Cardinality(backend),
              prevnback |-> lastBegin, offset |-> offsetFile, files |-> batches,
              alone |-> \A r \in Procs \ {p} : ~Active(r)]
        ELSE IF Active(q) THEN [snap[q] EXCEPT !.alone = FALSE]
        ELSE snap[q]]

Init ==
    /\ SERVICES \in ServiceLists
    /\ now = 0
    /\ backend = {}
    /\ lastEnd = -1
    /\ offsetFile = NoFile
    /\ batches = NoBatches
    /\ pc = [p \in Procs |-> "idle"]
    /\ end_time = [p \in Procs |-> 0]
    /\ start_time = [p \in Procs |-> 0]
    /\ svc = [p \in Procs |-> 1]
    /\ current_start_time = [p \in Procs |-> 0]
    /\ all_traces = [p \in Procs |-> <<>>]
    /\ traces = [p \in Procs |-> <<>>]
    /\ trace_file_path = [p \in Procs |-> <<0, 0>>]
    /\ last_trace_id = [p \in Procs |-> "t1"]
    /\ offset_data = [p \in Procs |-> EmptyDict]
    /\ result = [p \in Procs |-> "none"]
    /\ qlog = [p \in Procs |-> <<>>]
    /\ runs = 0
    /\ firstStart = None
    /\ fetchedPrev = {}
    /\ snap = [p \in Procs |-> NoRun]
    /\ lastBegin = None
    /\ anyFailed = FALSE
    /\ running = FALSE
    /\ jobs = 0
    /\ pending_jobs = 0
    /\ hpc = [h \in Handlers |-> "idle"]
    /\ hres = [h \in Handlers |-> "none"]
    /\ requests = 0

\* ------------------------------------------------------ the environment
Tick ==
    /\ now < MaxTime
    /\ now' = now + 1
    /\ UNCHANGED <<confVars, cronVars, backend, lastEnd, fileVars, pc, fetchVars, writeVars, result, histVars>>

SpanSeqs(lo, hi) == UNION {[1..n -> lo..hi] : n \in 1..MaxSpans}

\* A number that orders traces by service and spans; traces with the same
\* service and spans have the same number.
RECURSIVE SpansCode(_)
SpansCode(sp) ==
    IF sp = <<>> THEN 0
    ELSE sp[Len(sp)] + 1 + (MaxTime + 2) * SpansCode(SubSeq(sp, 1, Len(sp) - 1))

Rank(t) ==
    LET i == CHOOSE k \in 1..Len(SERVICES) : SERVICES[k] = t.service
    IN  SpansCode(<<i>> \o t.spans)

\* The backend records a new trace.  Its spans started no later than now,
\* and it is not inserted retroactively: it starts after the end of every
\* window already queried.  The traceIDs are opaque to the program, so the
\* traces that arrive between two runs are numbered in one order only (by
\* Rank): every set of traces is reached, once instead of once per order of
\* arrival.
AddTrace ==
    /\ Cardinality(backend) < MaxTraces
    /\ \E s \in SeqRange(SERVICES), sp \in SpanSeqs(lastEnd + 1, now) :
          LET t == [traceID |-> TraceIDs[Cardinality(backend) + 1],
                    service |-> s, spans |-> sp]
          IN  /\ \A u \in backend : EffStart(u) > lastEnd => Rank(u) <= Rank(t)
              /\ backend' = backend \cup {t}
    /\ UNCHANGED <<confVars, cronVars, now, lastEnd, fileVars, pc, fetchVars, writeVars, result, histVars>>

\* The traces of a service whose effective start time lies in [a, b].
InRange(s, a, b) ==
    {t \in backend : t.service = s /\ EffStart(t) >= a /\ EffStart(t) <= b}

\* The answers the backend may give: the traces in range, or TRACE_LIMIT of
\* them when there are more, in any order.
Pages(s, a, b) ==
    LET S == InRange(s, a, b)
        k == IF Cardinality(S) < TRACE_LIMIT THEN Cardinality(S) ELSE TRACE_LIMIT
    IN  {q \in [1..k -> S] : \A i, j \in 1..k : q[i] = q[j] => i = j}

\* ------------------------------------------------------ run_trace_writer
\* Lines 129-151: read the clock and the offset file, compute the window,
\* enter get_traces (lines 30-37).  The offset file is absent or parseable
\* here: json.load (line 139) raises on any other file.
Begin(p) ==
    /\ pc[p] = "idle"
    /\ runs < MaxRuns
    /\ offsetFile.exists => offsetFile.valid
    /\ LET s == StartTime(LastRecorded(offsetFile), now)
       IN  /\ end_time' = [end_time EXCEPT ![p] = now]
           /\ start_time' = [start_time EXCEPT ![p] = s]
           /\ current_start_time' = [current_start_time EXCEPT ![p] = s]
           /\ firstStart' = IF runs = 0 THEN s ELSE firstStart
    /\ svc' = [svc EXCEPT ![p] = 1]
    /\ all_traces' = [all_traces EXCEPT ![p] = <<>>]
    /\ qlog' = [qlog EXCEPT ![p] = <<>>]
    /\ result' = [result EXCEPT ![p] = "none"]
    /\ pc' = [pc EXCEPT ![p] = "query"]
    /\ runs' = runs + 1
    /\ lastEnd' = IF now > lastEnd THEN now ELSE lastEnd
    /\ snap' = SnapAtBegin(p)
    /\ lastBegin' = Cardinality(backend)
    /\ UNCHANGED <<confVars, cronVars, now, backend, fileVars, writeVars, fetchedPrev, anyFailed>>

\* ------------------------------------------------------ get_traces
\* Leaving the while loop of one service (the `break`s of lines 59 and 69):
\* the for loop takes the next service and resets current_start_time (line
\* 37), or get_traces returns (line 74) and write_traces is called.
NextService(p, cur) ==
    IF svc[p] < Len(SERVICES)
    THEN /\ svc' = [svc EXCEPT ![p] = svc[p] + 1]
         /\ current_start_time' = [current_start_time EXCEPT ![p] = start_time[p]]
         /\ pc' = [pc EXCEPT ![p] = "query"]
    ELSE /\ svc' = svc
         /\ current_start_time' = [current_start_time EXCEPT ![p] = cur]
         /\ pc' = [pc EXCEPT ![p] = "write"]

\* HandlePage with `<=` for `<` in the test of line 67: a full page stops
\* the pagination of the service.
HandlePage_StopOnFull(p, page) ==
    IF page = <<>>
    THEN /\ all_traces' = all_traces
         /\ NextService(p, current_start_time[p])
    ELSE /\ all_traces' = [all_traces EXCEPT ![p] = all_traces[p] \o page]
         /\ NextService(p, PageMaxStart(page) + 1)

\* HandlePage without the `+ 1` of line 65: the next query starts at the
\* maximum startTime of the page.
HandlePage_NoAdvance(p, page) ==
    IF page = <<>>
    THEN /\ all_traces' = all_traces
         /\ NextService(p, current_start_time[p])
    ELSE /\ all_traces' = [all_traces EXCEPT ![p] = all_traces[p] \o page]
         /\ IF Len(page) < TRACE_LIMIT
            THEN NextService(p, PageMaxStart(page))
            ELSE /\ svc' = svc
                 /\ current_start_time' =
                        [current_start_time EXCEPT ![p] = PageMaxStart(page)]
                 /\ pc' = [pc EXCEPT ![p] = "query"]

\* What get_traces does with a successful response (lines 54-71).
HandlePage(p, page) ==
    IF page = <<>>
    THEN /\ all_traces' = all_traces
         /\ NextService(p, current_start_time[p])
    ELSE /\ all_traces' = [all_traces EXCEPT ![p] = all_traces[p] \o page]
         /\ IF Len(page) < TRACE_LIMIT
            THEN NextService(p, PageMaxStart(page) + 1)
            ELSE /\ svc' = svc
                 /\ current_start_time' =
                        [current_start_time EXCEPT ![p] = PageMaxStart(page) + 1]
                 /\ pc' = [pc EXCEPT ![p] = "query"]

\* One iteration of the while loop whose request succeeds (lines 40-71).
QueryOk(p) ==
    /\ pc[p] = "query"
    /\ \E page \in Pages(SERVICES[svc[p]], current_start_time[p], end_time[p]) :
          /\ HandlePage(p, page)
          /\ qlog' = [qlog EXCEPT ![p] = Append(qlog[p],
                        [service |-> svc[p], start |-> current_start_time[p],
                         page |-> page, ok |-> TRUE])]
    /\ UNCHANGED <<confVars, cronVars, envVars, fileVars, end_time, start_time, writeVars, result, histVars>>

\* QueryFail returning an empty list in place of all_traces.
QueryFail_Discard(p) ==
    /\ pc[p] = "query"
    /\ qlog' = [qlog EXCEPT ![p] = Append(qlog[p],
                  [service |-> svc[p], start |-> current_start_time[p],
                   page |-> <<>>, ok |-> FALSE])]
    /\ all_traces' = [all_traces EXCEPT ![p] = <<>>]
    /\ pc' = [pc EXCEPT ![p] = "write"]
    /\ anyFailed' = TRUE
    /\ UNCHANGED <<confVars, cronVars, envVars, fileVars, end_time, start_time, svc,
                   current_start_time, writeVars, result,
                   runs, firstStart, fetchedPrev, snap, lastBegin>>

\* The request raises RequestException (lines 50-52): get_traces returns
\* what it has accumulated and write_traces is called with it.
QueryFail(p) ==
    /\ pc[p] = "query"
    /\ qlog' = [qlog EXCEPT ![p] = Append(qlog[p],
                  [service |-> svc[p], start |-> current_start_time[p],
                   page |-> <<>>, ok |-> FALSE])]
    /\ pc' = [pc EXCEPT ![p] = "write"]
    /\ anyFailed' = TRUE
    /\ UNCHANGED <<confVars, cronVars, envVars, fileVars, end_time, start_time, svc,
                   current_start_time, all_traces, writeVars, result,
                   runs, firstStart, fetchedPrev, snap, lastBegin>>

\* ------------------------------------------------------ write_traces
TraceIdsOf(s) == {s[i].traceID : i \in 1..Len(s)}

\* The invocation returns.
EndRun(p, res) ==
    /\ pc' = [pc EXCEPT ![p] = "done"]
    /\ result' = [result EXCEPT ![p] = res]
    /\ fetchedPrev' = fetchedPrev \cup TraceIdsOf(all_traces[p])
    /\ UNCHANGED <<confVars, cronVars, runs, firstStart, snap, lastBegin, anyFailed>>

\* WriteNothing without the early return before the offset update: the
\* offset file is rewritten with the entries it had.
WriteNothing_Touch(p) ==
    /\ pc[p] = "write"
    /\ all_traces[p] = <<>>
    /\ offsetFile' = JsonFile(offsetFile.data)
    /\ EndRun(p, "noop")
    /\ UNCHANGED <<confVars, cronVars, envVars, batches, fetchVars, writeVars>>

\* write_traces called with no traces (lines 79-81): nothing is written.
WriteNothing(p) ==
    /\ pc[p] = "write"
    /\ all_traces[p] = <<>>
    /\ EndRun(p, "noop")
    /\ UNCHANGED <<confVars, cronVars, envVars, fileVars, fetchVars, writeVars>>

\* Lines 87-99: sort, name the batch after the first and the last trace,
\* write the batch file (open(..., 'w') replaces a file of that name).
WriteBatch(p) ==
    /\ pc[p] = "write"
    /\ all_traces[p] # <<>>
    /\ LET sorted == SortTraces(all_traces[p])
           path == <<FirstStartTime(sorted), LastStartTime(sorted)>>
       IN  /\ traces' = [traces EXCEPT ![p] = sorted]
           /\ trace_file_path' = [trace_file_path EXCEPT ![p] = path]
           /\ last_trace_id' = [last_trace_id EXCEPT ![p] = LastTraceId(sorted)]
           /\ batches' = [f \in (DOMAIN batches) \cup {path} |->
                            IF f = path
                            THEN (IF f \in DOMAIN batches THEN batches[f] ELSE <<>>)
                                    \o <<sorted>>
                            ELSE batches[f]]
    /\ pc' = [pc EXCEPT ![p] = "merge"]
    /\ UNCHANGED <<confVars, cronVars, envVars, offsetFile, fetchVars, offset_data, result, histVars>>

\* MergeOffset starting from the empty dictionary in place of the loaded
\* one: the new cursor is the new entry alone.
MergeOffset_Replace(p) ==
    /\ pc[p] = "merge"
    /\ offset_data' = [offset_data EXCEPT ![p] =
                          DictSet(EmptyDict, Str(trace_file_path[p][2]), last_trace_id[p])]
    /\ pc' = [pc EXCEPT ![p] = "open"]
    /\ UNCHANGED <<confVars, cronVars, envVars, fileVars, fetchVars, traces, trace_file_path,
                   last_trace_id, result, histVars>>

\* Lines 104-113: load the offset file (an absent or unparseable file gives
\* the empty dictionary) and set the new entry.
MergeOffset(p) ==
    /\ pc[p] = "merge"
    /\ LET old == IF offsetFile.exists /\ offsetFile.valid
                  THEN offsetFile.data ELSE EmptyDict
       IN  offset_data' = [offset_data EXCEPT ![p] =
                              DictSet(old, Str(trace_file_path[p][2]), last_trace_id[p])]
    /\ pc' = [pc EXCEPT ![p] = "open"]
    /\ UNCHANGED <<confVars, cronVars, envVars, fileVars, fetchVars, traces, trace_file_path,
                   last_trace_id, result, histVars>>

\* Line 115: open(OFFSET_FILE, 'w') creates the file or truncates it; an
\* empty file is not parseable.
OpenOffset(p) ==
    /\ pc[p] = "open"
    /\ offsetFile' = [exists |-> TRUE, valid |-> FALSE, data |-> EmptyDict]
    /\ pc' = [pc EXCEPT ![p] = "dump"]
    /\ UNCHANGED <<confVars, cronVars, envVars, batches, fetchVars, writeVars, result, histVars>>

\* DumpOffset writing the new entry alone in place of the merged dictionary.
DumpOffset_EntryOnly(p) ==
    /\ pc[p] = "dump"
    /\ offsetFile' = JsonFile([k \in {Str(trace_file_path[p][2])} |-> last_trace_id[p]])
    /\ EndRun(p, "written")
    /\ UNCHANGED <<confVars, cronVars, envVars, batches, fetchVars, writeVars>>

\* Line 116: json.dump writes the merged dictionary; write_traces returns.
DumpOffset(p) ==
    /\ pc[p] = "dump"
    /\ offsetFile' = JsonFile(offset_data[p])
    /\ EndRun(p, "written")
    /\ UNCHANGED <<confVars, cronVars, envVars, batches, fetchVars, writeVars>>

\* run_trace_writer returns to the scheduler (line 153): its locals are
\* gone, the files stay.
Return(p) ==
    /\ pc[p] = "done"
    /\ pc' = [pc EXCEPT ![p] = "idle"]
    /\ end_time' = [end_time EXCEPT ![p] = 0]
    /\ start_time' = [start_time EXCEPT ![p] = 0]
    /\ svc' = [svc EXCEPT ![p] = 1]
    /\ current_start_time' = [current_start_time EXCEPT ![p] = 0]
    /\ all_traces' = [all_traces EXCEPT ![p] = <<>>]
    /\ qlog' = [qlog EXCEPT ![p] = <<>>]
    /\ traces' = [traces EXCEPT ![p] = <<>>]
    /\ trace_file_path' = [trace_file_path EXCEPT ![p] = <<0, 0>>]
    /\ last_trace_id' = [last_trace_id EXCEPT ![p] = "t1"]
    /\ offset_data' = [offset_data EXCEPT ![p] = EmptyDict]
    /\ result' = [result EXCEPT ![p] = "none"]
    /\ snap' = [snap EXCEPT ![p] = NoRun]
    /\ UNCHANGED <<confVars, cronVars, envVars, fileVars, runs, firstStart, fetchedPrev, lastBegin, anyFailed>>

\* ------------------------------------------------------ specification
Step(p) ==
    \/ Begin(p)
    \/ QueryOk(p)
    \/ QueryFail(p)
    \/ WriteNothing(p)
    \/ WriteBatch(p)
    \/ MergeOffset(p)
    \/ OpenOffset(p)
    \/ DumpOffset(p)
    \/ Return(p)

\* No invocation is in progress.
Quiet == \A p \in Procs : pc[p] = "idle"

\* One invocation at a time, as the scheduler runs the single job.  Time
\* passing and traces arriving during a run are not seen by that run (its
\* window ends at the clock value it read, and arriving traces start later),
\* so they are taken between runs.
Next ==
    \/ Quiet /\ Tick
    \/ Quiet /\ AddTrace
    \/ Step(1)

Spec == Init /\ [][Next]_vars

TypeOK ==
    /\ now \in 0..MaxTime
    /\ Cardinality(backend) <= MaxTraces
    /\ \A p \in Procs : pc[p] \in {"idle", "query", "write", "merge", "open", "dump", "done"}

\* ------------------------------------------------------ failures
\* run_trace_writer finds an offset file that json.load cannot parse (line
\* 139).  The call is in no try block: JSONDecodeError leaves
\* run_trace_writer before the window is computed, no query is made and
\* write_traces is not called.
BeginCorrupt(p) ==
    /\ pc[p] = "idle"
    /\ runs < MaxRuns
    /\ offsetFile.exists /\ ~offsetFile.valid
    /\ end_time' = [end_time EXCEPT ![p] = now]
    /\ pc' = [pc EXCEPT ![p] = "done"]
    /\ result' = [result EXCEPT ![p] = "JSONDecodeError"]
    /\ runs' = runs + 1
    /\ snap' = SnapAtBegin(p)
    /\ lastBegin' = Cardinality(backend)
    /\ UNCHANGED <<confVars, cronVars, envVars, fileVars, start_time, svc, current_start_time,
                   all_traces, qlog, writeVars, firstStart, fetchedPrev, anyFailed>>

\* The content of a batch file that was opened for writing and not written.
Truncated == <<>>

\* WriteBatchFail with the exception swallowed: no batch file is written and
\* write_traces goes on to update the offset file.
WriteBatchFail_Continue(p) ==
    /\ pc[p] = "write"
    /\ all_traces[p] # <<>>
    /\ LET sorted == SortTraces(all_traces[p])
           path == <<FirstStartTime(sorted), LastStartTime(sorted)>>
       IN  /\ traces' = [traces EXCEPT ![p] = sorted]
           /\ trace_file_path' = [trace_file_path EXCEPT ![p] = path]
           /\ last_trace_id' = [last_trace_id EXCEPT ![p] = LastTraceId(sorted)]
    /\ pc' = [pc EXCEPT ![p] = "merge"]
    /\ UNCHANGED <<confVars, cronVars, envVars, fileVars, fetchVars, offset_data, result, histVars>>

\* Lines 98-99 raise OSError: open() fails and no file is touched, or
\* json.dump fails after open() has created or emptied the file.  The
\* exception leaves write_traces before the offset file is read.
WriteBatchFail(p) ==
    /\ pc[p] = "write"
    /\ all_traces[p] # <<>>
    /\ LET sorted == SortTraces(all_traces[p])
           path == <<FirstStartTime(sorted), LastStartTime(sorted)>>
       IN  /\ traces' = [traces EXCEPT ![p] = sorted]
           /\ trace_file_path' = [trace_file_path EXCEPT ![p] = path]
           /\ last_trace_id' = [last_trace_id EXCEPT ![p] = LastTraceId(sorted)]
           /\ \/ batches' = batches
              \/ batches' = [f \in (DOMAIN batches) \cup {path} |->
                               IF f = path
                               THEN (IF f \in DOMAIN batches THEN batches[f] ELSE <<>>)
                                       \o <<Truncated>>
                               ELSE batches[f]]
    /\ EndRun(p, "BatchWriteError")
    /\ UNCHANGED <<confVars, cronVars, envVars, offsetFile, fetchVars, offset_data>>

\* Line 116 raises OSError after line 115 has emptied the offset file: the
\* file stays as open() left it and the exception leaves write_traces.
DumpOffsetFail(p) ==
    /\ pc[p] = "dump"
    /\ EndRun(p, "OffsetWriteError")
    /\ UNCHANGED <<confVars, cronVars, envVars, fileVars, fetchVars, writeVars>>

\* The process is killed during an invocation: the locals are gone, the
\* files stay as they are.
Crash(p) ==
    /\ pc[p] \notin {"idle", "done"}
    /\ pc' = [pc EXCEPT ![p] = "idle"]
    /\ end_time' = [end_time EXCEPT ![p] = 0]
    /\ start_time' = [start_time EXCEPT ![p] = 0]
    /\ svc' = [svc EXCEPT ![p] = 1]
    /\ current_start_time' = [current_start_time EXCEPT ![p] = 0]
    /\ all_traces' = [all_traces EXCEPT ![p] = <<>>]
    /\ qlog' = [qlog EXCEPT ![p] = <<>>]
    /\ traces' = [traces EXCEPT ![p] = <<>>]
    /\ trace_file_path' = [trace_file_path EXCEPT ![p] = <<0, 0>>]
    /\ last_trace_id' = [last_trace_id EXCEPT ![p] = "t1"]
    /\ offset_data' = [offset_data EXCEPT ![p] = EmptyDict]
    /\ result' = [result EXCEPT ![p] = "none"]
    /\ snap' = [snap EXCEPT ![p] = NoRun]
    /\ UNCHANGED <<confVars, cronVars, envVars, fileVars, runs, firstStart, fetchedPrev, lastBegin, anyFailed>>

StepFault(p) ==
    \/ Step(p)
    \/ BeginCorrupt(p)
    \/ WriteBatchFail(p)
    \/ DumpOffsetFail(p)
    \/ Crash(p)

\* One invocation at a time, with file errors and crashes.
NextFault ==
    \/ Quiet /\ Tick
    \/ Quiet /\ AddTrace
    \/ StepFault(1)

SpecFault == Init /\ [][NextFault]_vars

\* Overlapping invocations: invocation 1 is the first run and invocation 2
\* is started (by a second scheduler process or a second registered job)
\* before invocation 1 has returned.  The
\* queries of a run read the backend only, and neither the clock nor the
\* offset file changes while invocation 1 fetches or before it opens the
\* offset file.  So invocation 2 starts when invocation 1 has left
\* get_traces (or has completed write_traces), and invocation 1 waits while
\* invocation 2 fetches: every other interleaving gives both invocations the
\* same windows and pages and orders the file steps in one of the orders
\* taken here.
NextConc ==
    \/ Quiet /\ Tick
    \/ Quiet /\ AddTrace
    \/ (runs = 0 \/ pc[1] # "idle") /\ pc[2] # "query" /\ Step(1)
    \/ /\ \/ pc[1] \in {"write", "done"} /\ Cardinality(backend) <= MaxConcTraces
          \/ pc[2] # "idle"
       /\ Step(2)

SpecConc == Init /\ [][NextConc]_vars

\* ------------------------------------------------------ main.py
\* The endpoints are plain functions, which the server runs on worker
\* threads: the steps of two requests interleave.  The scheduler is
\* APScheduler's BackgroundScheduler with its in-memory job store:
\*   add_job on a stopped scheduler appends to the pending jobs, on a running
\*     one it stores the job and raises ConflictingIdError if the id is stored;
\*   start raises SchedulerAlreadyRunningError if running, otherwise stores
\*     the pending jobs one by one (ConflictingIdError leaves it stopped with
\*     the pending list as it was) and then is running;
\*   remove_job on a stopped scheduler removes a pending job, on a running one
\*     a stored job, and raises JobLookupError if there is none;
\*   shutdown raises SchedulerNotRunningError if stopped, otherwise stops the
\*     scheduler and empties the in-memory job store.

\* The handler returns or the exception gives the error response.
Respond(h, res) ==
    /\ hpc' = [hpc EXCEPT ![h] = "idle"]
    /\ hres' = [hres EXCEPT ![h] = res]

\* start_cron, line 36: `if not scheduler.running`, else line 40.
StartCheck(h) ==
    /\ hpc[h] = "idle"
    /\ requests < MaxRequests
    /\ requests' = requests + 1
    /\ IF ~running
       THEN /\ hpc' = [hpc EXCEPT ![h] = "add_job"]
            /\ hres' = [hres EXCEPT ![h] = "none"]
       ELSE Respond(h, "already running")
    /\ UNCHANGED <<running, jobs, pending_jobs, writerVars>>

\* start_cron, line 37: scheduler.add_job(..., id='cron_run_trace_writer').
StartAddJob(h) ==
    /\ hpc[h] = "add_job"
    /\ IF ~running
       THEN /\ pending_jobs' = pending_jobs + 1
            /\ jobs' = jobs
            /\ hpc' = [hpc EXCEPT ![h] = "start"]
            /\ hres' = hres
       ELSE IF jobs = 0
       THEN /\ jobs' = 1
            /\ pending_jobs' = pending_jobs
            /\ hpc' = [hpc EXCEPT ![h] = "start"]
            /\ hres' = hres
       ELSE /\ Respond(h, "ConflictingIdError")
            /\ UNCHANGED <<jobs, pending_jobs>>
    /\ UNCHANGED <<running, requests, writerVars>>

\* start_cron, lines 38-39: scheduler.start() and the response.
StartStart(h) ==
    /\ hpc[h] = "start"
    /\ IF running
       THEN /\ Respond(h, "SchedulerAlreadyRunningError")
            /\ UNCHANGED <<running, jobs, pending_jobs>>
       ELSE IF jobs + pending_jobs <= 1
       THEN /\ jobs' = jobs + pending_jobs
            /\ pending_jobs' = 0
            /\ running' = TRUE
            /\ Respond(h, "started")
       ELSE /\ jobs' = 1
            /\ Respond(h, "ConflictingIdError")
            /\ UNCHANGED <<running, pending_jobs>>
    /\ UNCHANGED <<requests, writerVars>>

\* stop_cron, line 45: `if scheduler.running`, else line 49.
StopCheck(h) ==
    /\ hpc[h] = "idle"
    /\ requests < MaxRequests
    /\ requests' = requests + 1
    /\ IF running
       THEN /\ hpc' = [hpc EXCEPT ![h] = "remove_job"]
            /\ hres' = [hres EXCEPT ![h] = "none"]
       ELSE Respond(h, "already stopped")
    /\ UNCHANGED <<running, jobs, pending_jobs, writerVars>>

\* stop_cron, line 46: scheduler.remove_job('cron_run_trace_writer').
StopRemoveJob(h) ==
    /\ hpc[h] = "remove_job"
    /\ IF ~running /\ pending_jobs > 0
       THEN /\ pending_jobs' = pending_jobs - 1
            /\ jobs' = jobs
            /\ hpc' = [hpc EXCEPT ![h] = "shutdown"]
            /\ hres' = hres
       ELSE IF running /\ jobs > 0
       THEN /\ jobs' = jobs - 1
            /\ pending_jobs' = pending_jobs
            /\ hpc' = [hpc EXCEPT ![h] = "shutdown"]
            /\ hres' = hres
       ELSE /\ Respond(h, "JobLookupError")
            /\ UNCHANGED <<jobs, pending_jobs>>
    /\ UNCHANGED <<running, requests, writerVars>>

\* stop_cron, lines 47-48: scheduler.shutdown() and the response.
StopShutdown(h) ==
    /\ hpc[h] = "shutdown"
    /\ IF running
       THEN /\ running' = FALSE
            /\ jobs' = 0
            /\ Respond(h, "stopped")
       ELSE /\ Respond(h, "SchedulerNotRunningError")
            /\ UNCHANGED <<running, jobs>>
    /\ UNCHANGED <<pending_jobs, requests, writerVars>>

NextCron ==
    \E h \in Handlers :
        \/ StartCheck(h)
        \/ StartAddJob(h)
        \/ StartStart(h)
        \/ StopCheck(h)
        \/ StopRemoveJob(h)
        \/ StopShutdown(h)

SpecCron == Init /\ [][NextCron]_vars

\* ------------------------------------------------------ properties
\* The traces a file has held, over all the writes to it.
EverWritten ==
    UNION {UNION {TraceIdsOf(batches[f][i]) : i \in 1..Len(batches[f])} :
              f \in DOMAIN batches}

\* The current content of a batch file.
Content(f) == batches[f][Len(batches[f])]

\* A query of the run has failed.
Failed(p) == \E i \in 1..Len(qlog[p]) : ~qlog[p][i].ok

\* The pages of a query log, concatenated in the order of the queries.
RECURSIVE ConcatPages(_)
ConcatPages(log) ==
    IF log = <<>> THEN <<>>
    ELSE ConcatPages(SubSeq(log, 1, Len(log) - 1)) \o log[Len(log)].page

\* The traces the backend holds for the configured services that start in
\* the window of the run.
InWindow(p) ==
    {t \in backend : /\ t.service \in SeqRange(SERVICES)
                     /\ EffStart(t) >= start_time[p]
                     /\ EffStart(t) <= end_time[p]}

\* The offset file holds a cursor with at least one entry.
HasCursor(file) == file.exists /\ file.valid /\ DOMAIN file.data # {}

\* C1: between runs, every trace the backend holds for a configured service
\* whose effective start time lies between the start_time of the first run
\* and the maximum key of the cursor has been written to a batch file.
C1_NoGap ==
    (Quiet /\ runs > 0 /\ HasCursor(offsetFile)) =>
        \A t \in backend :
            (/\ t.service \in SeqRange(SERVICES)
             /\ EffStart(t) >= firstStart
             /\ EffStart(t) <= MaxKey(offsetFile.data)) => t.traceID \in EverWritten

\* C2: when a run has written a batch, the maximum key of the offset file is
\* the maximum startTime over all spans of all traces of the batch (stated
\* for the runs none of whose queries failed).
C2_CursorIsGlobalMax ==
    \A p \in Procs :
        (pc[p] = "done" /\ result[p] = "written" /\ ~Failed(p)) =>
            MaxKey(offsetFile.data) = PageMaxStart(Content(trace_file_path[p]))

\* C3: when write_traces has written a batch, the two numbers of the file
\* name satisfy first <= last, the numerically largest key of the offset file
\* is last, and it maps to the traceID of the last trace of the batch.
C3_NameAndCursor ==
    \A p \in Procs :
        (pc[p] = "done" /\ result[p] = "written") =>
            LET f == trace_file_path[p]
            IN  /\ f \in DOMAIN batches
                /\ f[1] <= f[2]
                /\ HasCursor(offsetFile)
                /\ MaxKey(offsetFile.data) = f[2]
                /\ offsetFile.data[Str(f[2])] = Content(f)[Len(Content(f))].traceID

\* A run that resumed from an earlier cursor wrote a batch of several traces,
\* one of them with its spans out of order.
C3_Witness ==
    /\ pc[1] = "done"
    /\ result[1] = "written"
    /\ HasCursor(snap[1].offset)
    /\ Cardinality(DOMAIN offsetFile.data) >= 2
    /\ Len(traces[1]) >= 2
    /\ \E i \in 1..Len(traces[1]) :
          /\ Len(traces[1][i].spans) >= 2
          /\ traces[1][i].spans[1] > traces[1][i].spans[2]

\* No key of the cursor is 0.
NoZeroKey(file) == \A k \in DOMAIN file.data : ToInt(k) # 0

\* C4: a run that ends with the backend holding the traces it held when the
\* run before it began creates no batch file and leaves the offset file as
\* it found it (stated for runs none of whose queries failed and that
\* resumed from a cursor without the key 0).
C4_ResumeIdempotent ==
    \A p \in Procs :
        (/\ pc[p] = "done"
         /\ ~anyFailed
         /\ HasCursor(snap[p].offset) /\ NoZeroKey(snap[p].offset)
         /\ snap[p].prevnback # None
         /\ snap[p].prevnback = Cardinality(backend)) =>
            /\ DOMAIN batches = DOMAIN snap[p].files
            /\ offsetFile = snap[p].offset

\* C5: a run that finds a cursor with at least one entry starts its window at
\* the numerically largest key plus 1.
C5_ResumePoint ==
    \A p \in Procs :
        (pc[p] # "idle" /\ HasCursor(snap[p].offset)) =>
            start_time[p] = MaxKey(snap[p].offset.data) + 1

\* C6: no run fetches a trace that an earlier run has fetched (stated for
\* runs none of whose queries failed; the backend of the model answers with
\* traces of the window only and inserts none retroactively).
C6_NoDuplicateFetch ==
    \A p \in Procs :
        (pc[p] \in {"query", "write", "merge", "open", "dump"} /\ ~anyFailed) =>
            TraceIdsOf(all_traces[p]) \cap fetchedPrev = {}

\* C7: when no query fails, get_traces returns every trace the backend holds
\* for the configured services with effective start time in the window,
\* whatever TRACE_LIMIT traces of a longer result the backend returns.
C7_PaginationComplete ==
    \A p \in Procs :
        (pc[p] = "write" /\ ~Failed(p)) =>
            \A t \in InWindow(p) : t.traceID \in TraceIdsOf(all_traces[p])

\* C8: a failed query is the last query of its run; get_traces then returns
\* exactly the pages fetched before it, in fetch order, and write_traces
\* writes them to the batch file of the run.
C8_FailSoft ==
    \A p \in Procs :
        /\ \A i \in 1..Len(qlog[p]) :
              ~qlog[p][i].ok => (i = Len(qlog[p]) /\ pc[p] # "query")
        /\ (Failed(p) /\ pc[p] = "write") => all_traces[p] = ConcatPages(qlog[p])
        /\ (Failed(p) /\ pc[p] \in {"merge", "open", "dump", "done"}
                /\ ConcatPages(qlog[p]) # <<>>) =>
              /\ result[p] \in {"none", "written"}
              /\ trace_file_path[p] \in DOMAIN batches
              /\ TraceIdsOf(Content(trace_file_path[p]))
                    = TraceIdsOf(ConcatPages(qlog[p]))

\* A run fetched traces of service A, the query for service B failed, and
\* the run wrote its batch.
C8_Witness ==
    /\ pc[1] = "done"
    /\ result[1] = "written"
    /\ Len(qlog[1]) >= 2
    /\ ~qlog[1][Len(qlog[1])].ok
    /\ qlog[1][Len(qlog[1])].service = 2
    /\ \E t \in TraceIdsOf(Content(trace_file_path[1])) :
          \E b \in backend : b.traceID = t /\ b.service = "A"

\* C9: after a page of fewer than TRACE_LIMIT traces the next query, if any,
\* is for the next service and no later query is for the same service; after
\* a page of TRACE_LIMIT traces the next query is for the same service, and
\* get_traces does not leave the service before it.
C9_ShortPageStop ==
    \A p \in Procs : \A i \in 1..Len(qlog[p]) :
        LET q == qlog[p][i]
            isLast == i = Len(qlog[p])
        IN  q.ok =>
              IF Len(q.page) < TRACE_LIMIT
              THEN /\ \A j \in (i + 1)..Len(qlog[p]) : qlog[p][j].service > q.service
                   /\ ~isLast => qlog[p][i + 1].service = q.service + 1
                   /\ (isLast /\ pc[p] = "query") => svc[p] = q.service + 1
                   /\ (isLast /\ q.service = Len(SERVICES)) => pc[p] # "query"
              ELSE /\ ~isLast => qlog[p][i + 1].service = q.service
                   /\ isLast => (pc[p] = "query" /\ svc[p] = q.service)

\* A full page was followed by a query for the same service, whose short
\* page was followed by a query for the next service.
C9_Witness ==
    \E i \in 1..Len(qlog[1]) :
        /\ i + 2 <= Len(qlog[1])
        /\ qlog[1][i].ok /\ Len(qlog[1][i].page) = TRACE_LIMIT
        /\ qlog[1][i + 1].ok /\ qlog[1][i + 1].service = qlog[1][i].service
        /\ Len(qlog[1][i + 1].page) \in 1..(TRACE_LIMIT - 1)
        /\ qlog[1][i + 2].service = qlog[1][i].service + 1

\* C10: a run that fetched no trace writes no batch file, leaves the offset
\* file as it found it (absent if it was absent) and ends without an error.
C10_EmptyIsNoOp ==
    \A p \in Procs :
        (pc[p] = "done" /\ all_traces[p] = <<>>) =>
            /\ result[p] = "noop"
            /\ batches = snap[p].files
            /\ offsetFile = snap[p].offset

\* A run over an existing cursor queried every service without a failure
\* and found nothing to fetch.
C10_Witness ==
    /\ pc[1] = "done"
    /\ all_traces[1] = <<>>
    /\ result[1] = "noop"
    /\ Len(qlog[1]) = Len(SERVICES)
    /\ ~Failed(1)
    /\ offsetFile.exists

\* C11: a run that finds an offset file it cannot parse takes the 15-minute
\* lookback as its window, ends without an error having fetched and written,
\* and when it has written a batch the offset file is parseable again.
C11_CorruptOffsetFailSoft ==
    \A p \in Procs :
        (pc[p] = "done" /\ snap[p].offset.exists /\ ~snap[p].offset.valid) =>
            /\ result[p] \in {"written", "noop"}
            /\ start_time[p] = end_time[p] - LOOKBACK
            /\ result[p] = "written" => HasCursor(offsetFile)

\* The position of a trace in the list get_traces returned.
FetchIndex(p, t) == CHOOSE i \in 1..Len(all_traces[p]) : all_traces[p][i] = t

\* C12: the traces of a written batch are in ascending order of their
\* minimum span startTime, and traces with the same minimum keep the order
\* in which they were fetched.
C12_BatchOrder ==
    \A p \in Procs :
        pc[p] \in {"merge", "open", "dump"} =>
            LET batch == Content(trace_file_path[p])
            IN  \A i, j \in 1..Len(batch) :
                    i < j =>
                        /\ MinSpan(batch[i]) <= MinSpan(batch[j])
                        /\ MinSpan(batch[i]) = MinSpan(batch[j]) =>
                              FetchIndex(p, batch[i]) < FetchIndex(p, batch[j])

\* C13: when write_traces has completed over an absent or parseable offset
\* file, the offset file is the cursor the run found with the one entry
\* str(last_start_time) -> last traceID set: every other entry is as it was,
\* no key is lost and the maximum key is not smaller than it was.
C13_CursorMerged ==
    \A p \in Procs :
        (pc[p] = "done" /\ result[p] = "written"
            /\ (snap[p].offset.exists => snap[p].offset.valid)) =>
            LET old == snap[p].offset.data
                k == Str(trace_file_path[p][2])
            IN  /\ offsetFile = JsonFile(DictSet(old, k, last_trace_id[p]))
                /\ DOMAIN old \subseteq DOMAIN offsetFile.data
                /\ \A x \in DOMAIN old : x # k => offsetFile.data[x] = old[x]
                /\ DOMAIN old # {} => MaxKey(offsetFile.data) >= MaxKey(old)

\* A run added an entry with a new key to a cursor that had entries.
C13_Witness ==
    /\ pc[1] = "done"
    /\ result[1] = "written"
    /\ HasCursor(snap[1].offset)
    /\ Str(trace_file_path[1][2]) \notin DOMAIN snap[1].offset.data
    /\ DOMAIN offsetFile.data =
          DOMAIN snap[1].offset.data \cup {Str(trace_file_path[1][2])}

\* C14: no batch file is written a second time, whatever runs, failures and
\* crashes came before.
C14_WriteOnce == \A f \in DOMAIN batches : Len(batches[f]) = 1

\* C15: with one configured service and no offset file, a run none of whose
\* queries fails and whose window holds exactly one trace, of two spans with
\* startTimes a <= b in either order, leaves exactly one batch file, named
\* a_b and holding that trace, and the offset file {str(b): traceID}.
C15_FirstRun ==
    \A p \in Procs :
        (/\ pc[p] = "done"
         /\ Len(SERVICES) = 1
         /\ ~snap[p].offset.exists
         /\ ~Failed(p)
         /\ Cardinality(InWindow(p)) = 1
         /\ \A t \in InWindow(p) : Len(t.spans) = 2) =>
            LET t == CHOOSE x \in InWindow(p) : TRUE
                a == MinSpan(t)
                b == MaxSpan(t)
            IN  /\ result[p] = "written"
                /\ DOMAIN batches = {<<a, b>>}
                /\ batches[<<a, b>>] = <<<<t>>>>
                /\ offsetFile = JsonFile([k \in {Str(b)} |-> t.traceID])

\* The first run of a one-service configuration has written the one trace
\* of the backend, whose later span comes first in the list of spans.
C15_Witness ==
    /\ pc[1] = "done"
    /\ result[1] = "written"
    /\ Len(SERVICES) = 1
    /\ snap[1].n = 1
    /\ ~snap[1].offset.exists
    /\ ~Failed(1)
    /\ \E t \in backend :
          /\ backend = {t}
          /\ Len(t.spans) = 2
          /\ t.spans[1] > t.spans[2]
          /\ batches[<<t.spans[2], t.spans[1]>>] = <<<<t>>>>

\* C16: whenever no invocation is in progress, and so after a crash at any
\* point of write_traces, the offset file is absent or parseable.
C16_CrashSafeOffset == Quiet => (offsetFile.exists => offsetFile.valid)

\* A batch file whose name ends in _K has been written in full.
HasBatch(K) ==
    \E f \in DOMAIN batches :
        /\ f[2] = K
        /\ \E i \in 1..Len(batches[f]) : batches[f][i] # Truncated

\* C17: in every state, failures and crashes included, the offset file is as
\* the run found it until the run has written its batch file, it is as the
\* run found it when the batch write has failed, and every key K of the
\* cursor, on disk or about to be written, has a batch file named *_K.
C17_BatchBeforeCursor ==
    /\ \A p \in Procs :
          /\ pc[p] \in {"query", "write"} => offsetFile = snap[p].offset
          /\ (pc[p] = "done" /\ result[p] = "BatchWriteError") =>
                offsetFile = snap[p].offset
          /\ pc[p] \in {"open", "dump"} =>
                \A k \in DOMAIN offset_data[p] : HasBatch(ToInt(k))
    /\ \A k \in DOMAIN offsetFile.data : HasBatch(ToInt(k))

\* A run that resumed from a cursor failed to write its batch file: the
\* offset file still holds the cursor the run found.
C17_Witness ==
    /\ pc[1] = "done"
    /\ result[1] = "BatchWriteError"
    /\ HasCursor(snap[1].offset)
    /\ offsetFile = snap[1].offset
    /\ ~HasBatch(trace_file_path[1][2])

\* Invocation p has completed write_traces and its entry is in the cursor.
EntryKept(p) ==
    /\ HasCursor(offsetFile)
    /\ Str(trace_file_path[p][2]) \in DOMAIN offsetFile.data

\* C18: when two invocations have both completed write_traces and neither
\* ran while the other was in progress, the offset file holds the entries of
\* both.
C18_NoLostUpdateAlone ==
    (/\ \A p \in Procs : pc[p] = "done" /\ result[p] = "written"
     /\ \A p \in Procs : snap[p].alone) =>
        /\ \A p \in Procs : EntryKept(p)
        /\ \E p \in Procs :
              offsetFile.data[Str(trace_file_path[p][2])] = last_trace_id[p]

\* Two overlapping invocations have both completed write_traces, each read
\* the offset file before the other wrote it, and the offset file lacks the
\* entry of invocation 1.
C18_Witness ==
    /\ \A p \in Procs : pc[p] = "done" /\ result[p] = "written"
    /\ \E p \in Procs : ~snap[p].alone
    /\ HasCursor(offsetFile)
    /\ ~EntryKept(1)
    /\ EntryKept(2)

\* The queries of a run for the service of index k.
QueriesFor(p, k) == {i \in 1..Len(qlog[p]) : qlog[p][i].service = k}

\* C19: after a full page the query start of the service is strictly larger
\* than the start of the query that returned the page, the backend always
\* has an answer, and the queries a run makes for a service number at most
\* one more than the full pages the traces of the service can fill: the
\* loop of get_traces ends.
C19_PaginationTerminates ==
    \A p \in Procs :
        /\ \A i \in 1..Len(qlog[p]) :
              (qlog[p][i].ok /\ Len(qlog[p][i].page) = TRACE_LIMIT) =>
                  IF i < Len(qlog[p])
                  THEN /\ qlog[p][i + 1].service = qlog[p][i].service
                       /\ qlog[p][i + 1].start > qlog[p][i].start
                  ELSE /\ pc[p] = "query"
                       /\ current_start_time[p] > qlog[p][i].start
        /\ pc[p] = "query" =>
              Pages(SERVICES[svc[p]], current_start_time[p], end_time[p]) # {}
        /\ \A k \in 1..Len(SERVICES) :
              Cardinality(QueriesFor(p, k)) <=
                  (Cardinality({t \in backend : t.service = SERVICES[k]})
                      \div TRACE_LIMIT) + 1

\* A full page whose traces all have the same, single startTime was followed
\* by a query of the same service from a later start, which found nothing,
\* and get_traces has returned.
C19_Witness ==
    /\ pc[1] = "done"
    /\ \E i \in 1..Len(qlog[1]) :
          /\ i < Len(qlog[1])
          /\ qlog[1][i].ok /\ Len(qlog[1][i].page) = TRACE_LIMIT
          /\ \A j \in 1..TRACE_LIMIT :
                /\ MinSpan(qlog[1][i].page[j]) = PageMaxStart(qlog[1][i].page)
                /\ MaxSpan(qlog[1][i].page[j]) = PageMaxStart(qlog[1][i].page)
          /\ qlog[1][i + 1].service = qlog[1][i].service
          /\ qlog[1][i + 1].ok /\ qlog[1][i + 1].page = <<>>
          /\ qlog[1][i + 1].start = PageMaxStart(qlog[1][i].page) + 1

\* No request is being handled.
CronQuiet == \A h \in Handlers : hpc[h] = "idle"

\* C20: whenever no request is being handled, at most one job
\* cron_run_trace_writer is registered with the scheduler (stored or
\* pending), and one is registered exactly when the scheduler is running.
C20_SingleJob ==
    CronQuiet =>
        /\ jobs + pending_jobs <= 1
        /\ (jobs + pending_jobs = 1) <=> running

====
